---- MODULE Spec2Model ----
(***************************************************************************)
(* A model of src/pgm_common.h (polyagamma): pgm_erfc, pgm_lgamma,         *)
(* random_left_bounded_gamma, confluent_x_smaller, confluent_p_smaller and *)
(* pgm_gammaq.                                                             *)
(*                                                                         *)
(* The C type double is modelled as a binary floating-point format with    *)
(* the exponent range of IEEE-754 binary64 (DBL_MIN = 2^-1022, overflow    *)
(* to infinity above 2^1024, gradual underflow, NaN, round to nearest      *)
(* even) and a significand of MB bits instead of 53, because TLC's         *)
(* integers have 32 bits.  Signed zeros are not distinguished.             *)
(***************************************************************************)
EXTENDS Integers, Sequences, FiniteSets, TLC

(***************************************************************************)
(* Floating-point numbers.                                                 *)
(***************************************************************************)

\* Number of significand bits of the modelled double (53 in binary64).
MB == 14

Pow2(n) == 2 ^ n

Abs(n) == IF n < 0 THEN -n ELSE n

Sgn(n) == IF n < 0 THEN -1 ELSE 1

Max(i, j) == IF i >= j THEN i ELSE j

Min(i, j) == IF i <= j THEN i ELSE j

\* The number of binary digits of n, 0 <= n < 2^30.
BitLen(n) ==
    IF n = 0 THEN 0 ELSE CHOOSE k \in 1 .. 30 : Pow2(k - 1) <= n /\ n < Pow2(k)

\* A finite number is m * 2^e, with 2^(MB-1) <= |m| < 2^MB (normal), or
\* |m| < 2^(MB-1) and e = EMin (subnormal and zero).
EMin == -1022 - (MB - 1)

EMax == 1023 - (MB - 1)

NaN == [k |-> "nan", m |-> 0, e |-> 0]

Inf(s) == [k |-> "inf", m |-> s, e |-> 0]

Zero == [k |-> "fin", m |-> 0, e |-> EMin]

Fin(m, e) == [k |-> "fin", m |-> m, e |-> e]

One == Fin(Pow2(MB - 1), -(MB - 1))

Two == Fin(Pow2(MB - 1), -(MB - 2))

Half == Fin(Pow2(MB - 1), -MB)

\* The values of a double.
Double == [k : {"fin", "inf", "nan"}, m : Int, e : Int]

IsNaN(a) == a.k = "nan"

IsInf(a) == a.k = "inf"

IsFin(a) == a.k = "fin"

IsZero(a) == a.k = "fin" /\ a.m = 0

\* M / 2^sh rounded to the nearest integer, ties to even; st = 1 says that
\* nonzero digits were already dropped below M.
RoundShift[M \in Int, sh \in Int, st \in Int] ==
    IF sh <= 0 THEN M * Pow2(-sh)
    ELSE IF sh > 30 THEN 0
    ELSE IF (M % Pow2(sh)) > Pow2(sh - 1)
            \/ ((M % Pow2(sh)) = Pow2(sh - 1) /\ (st = 1 \/ (M \div Pow2(sh)) % 2 = 1))
         THEN (M \div Pow2(sh)) + 1
         ELSE M \div Pow2(sh)

\* s * q * 2^e for a rounded significand q <= 2^MB.
PackRounded[s \in Int, q \in Int, e \in Int] ==
    IF q = 0 THEN Zero
    ELSE IF e + (IF q = Pow2(MB) THEN 1 ELSE 0) > EMax THEN Inf(s)
    ELSE IF q = Pow2(MB) THEN Fin(s * Pow2(MB - 1), e + 1)
    ELSE Fin(s * q, e)

PackShift[s \in Int, M \in Int, e \in Int, st \in Int, sh \in Int] ==
    PackRounded[s, RoundShift[M, sh, st], e + sh]

\* The double nearest to s * M * 2^e (s = 1 or -1, 0 <= M < 2^30); the
\* digits kept are MB, or fewer where the result is subnormal.
ieee_round[s \in Int, M \in Int, e \in Int, st \in Int] ==
    IF M = 0 THEN Zero ELSE PackShift[s, M, e, st, Max(BitLen(M) - MB, EMin - e)]

Pack(s, M, e, st) == ieee_round[s, M, e, st]

\* The double nearest to the integer n, |n| < 2^30.
FromInt(n) == Pack(Sgn(n), Abs(n), 0, 0)

\* 2^n as a double, EMin <= n <= 1023.
Pow2Fl(n) ==
    IF n >= EMin + MB - 1 THEN Fin(Pow2(MB - 1), n - (MB - 1))
    ELSE Fin(Pow2(n - EMin), EMin)

SignOf(a) == IF a.m < 0 THEN -1 ELSE 1

ieee_neg[a \in Double] == IF IsNaN(a) THEN a ELSE [a EXCEPT !.m = -a.m]

Neg(a) == ieee_neg[a]

ieee_fabs[a \in Double] == IF IsNaN(a) THEN a ELSE [a EXCEPT !.m = Abs(a.m)]

FAbs(a) == ieee_fabs[a]

\* The exponent by which magnitudes are ordered (infinity above every finite).
OrdE(a) == IF IsInf(a) THEN EMax + 1 ELSE a.e

\* a < b of C: false when an operand is NaN.
ieee_lt[a \in Double, b \in Double] ==
    /\ ~IsNaN(a)
    /\ ~IsNaN(b)
    /\ IF a.m < 0 /\ b.m >= 0 THEN TRUE
       ELSE IF a.m >= 0 /\ b.m < 0 THEN FALSE
       ELSE IF a.m >= 0
            THEN OrdE(a) < OrdE(b) \/ (OrdE(a) = OrdE(b) /\ a.m < b.m)
            ELSE OrdE(a) > OrdE(b) \/ (OrdE(a) = OrdE(b) /\ a.m < b.m)

Lt(a, b) == ieee_lt[a, b]

Eq(a, b) == ~IsNaN(a) /\ ~IsNaN(b) /\ a = b

Gt(a, b) == Lt(b, a)

Le(a, b) == ~IsNaN(a) /\ ~IsNaN(b) /\ ~Lt(b, a)

Ge(a, b) == Le(b, a)

ieee_mul[a \in Double, b \in Double] ==
    IF IsNaN(a) \/ IsNaN(b) THEN NaN
    ELSE IF IsInf(a) \/ IsInf(b)
         THEN IF IsZero(a) \/ IsZero(b) THEN NaN ELSE Inf(SignOf(a) * SignOf(b))
    ELSE Pack(SignOf(a) * SignOf(b), Abs(a.m) * Abs(b.m), a.e + b.e, 0)

Mul(a, b) == ieee_mul[a, b]

\* The significand of a nonzero finite number shifted up to MB digits.
NormM(a) == Abs(a.m) * Pow2(MB - BitLen(Abs(a.m)))

NormE(a) == a.e - (MB - BitLen(Abs(a.m)))

\* s * (N / D) * 2^e for 2^(MB-1) <= N, D < 2^MB, by long division: MB + 2
\* digits of the quotient and whether a remainder is left.
DivDigits[s \in Int, N \in Int, D \in Int, e \in Int] ==
    Pack(s, 4 * ((N * Pow2(MB)) \div D) + (4 * ((N * Pow2(MB)) % D)) \div D,
         e - MB - 2, IF (4 * ((N * Pow2(MB)) % D)) % D = 0 THEN 0 ELSE 1)

ieee_div[a \in Double, b \in Double] ==
    IF IsNaN(a) \/ IsNaN(b) THEN NaN
    ELSE IF IsInf(a) THEN (IF IsInf(b) THEN NaN ELSE Inf(SignOf(a) * SignOf(b)))
    ELSE IF IsInf(b) THEN Zero
    ELSE IF IsZero(b) THEN (IF IsZero(a) THEN NaN ELSE Inf(SignOf(a) * SignOf(b)))
    ELSE IF IsZero(a) THEN Zero
    ELSE DivDigits[SignOf(a) * SignOf(b), NormM(a), NormM(b), NormE(a) - NormE(b)]

Div(a, b) == ieee_div[a, b]

\* s * S * 2^e for a signed sum S.
PackSum[s \in Int, S \in Int, e \in Int, st \in Int] ==
    Pack(s * Sgn(S), Abs(S), e, st)

\* a + b with a.m shifted up by up digits and b.m down by dn, where st = 1
\* says that b lost nonzero digits by it.
AddAligned[a \in Double, b \in Double, up \in Int, dn \in Int, st \in Int] ==
    PackSum[SignOf(a),
            Abs(a.m) * Pow2(up)
              + (IF SignOf(a) = SignOf(b) THEN Abs(b.m) \div Pow2(dn)
                 ELSE -(Abs(b.m) \div Pow2(dn)) - st),
            a.e - up, st]

\* a + b for finite nonzero a, b with a.e >= b.e.
AddOrdered[a \in Double, b \in Double] ==
    IF a.e - b.e >= MB + 3 THEN a
    ELSE AddAligned[a, b, Min(a.e - b.e, 3), Max(a.e - b.e - 3, 0),
                    IF Abs(b.m) % Pow2(Max(a.e - b.e - 3, 0)) = 0 THEN 0 ELSE 1]

ieee_add[a \in Double, b \in Double] ==
    IF IsNaN(a) \/ IsNaN(b) THEN NaN
    ELSE IF IsInf(a) THEN (IF IsInf(b) /\ a.m # b.m THEN NaN ELSE a)
    ELSE IF IsInf(b) THEN b
    ELSE IF IsZero(a) THEN b
    ELSE IF IsZero(b) THEN a
    ELSE AddOrdered[IF a.e >= b.e THEN a ELSE b, IF a.e >= b.e THEN b ELSE a]

Add(a, b) == ieee_add[a, b]

Sub(a, b) == ieee_add[a, ieee_neg[b]]

\* a * 2^n.
ieee_scale[a \in Double, n \in Int] == IF IsFin(a) THEN Pack(SignOf(a), Abs(a.m), a.e + n, 0) ELSE a

Scale(a, n) == ieee_scale[a, n]

RECURSIVE Pow10Fl(_)
Pow10Fl(n) == IF n <= 9 THEN FromInt(10 ^ n) ELSE Mul(FromInt(10 ^ 9), Pow10Fl(n - 9))

\* The double nearest to the decimal literal n * 10^(-x), |n| < 2^30, x >= 0.
Dec(n, x) == Div(FromInt(n), Pow10Fl(x))

\* The integer nearest to a finite a, |a| < 2^30.
RoundToInt(a) ==
    IF a.e >= 0 THEN a.m * Pow2(a.e) ELSE SignOf(a) * RoundShift[Abs(a.m), -a.e, 0]

\* (size_t)a of C for a finite a with 0 <= a < 2^30: the fraction is dropped.
CastSizeT(a) ==
    IF a.e >= 0 THEN a.m * Pow2(a.e)
    ELSE IF -a.e > 30 THEN 0
    ELSE a.m \div Pow2(-a.e)

(***************************************************************************)
(* The functions of <math.h> the program calls, computed in the modelled   *)
(* arithmetic by argument reduction and a truncated series.                *)
(***************************************************************************)

Ln2 == Dec(693147181, 9)

\* 1 + r/1 * (1 + r/2 * (... (1 + r/n * acc))), the Taylor series of exp(r)
\* summed from its last term.
ExpSeries[r \in Double, n \in Int, acc \in Double] ==
    IF n = 0 THEN acc
    ELSE ExpSeries[r, n - 1, Add(One, Mul(Div(r, FromInt(n)), acc))]

\* exp(a) for a = r + n log 2.
ExpReduced[a \in Double, n \in Int] ==
    Scale(ExpSeries[Sub(a, Mul(FromInt(n), Ln2)), 7, One], n)

\* exp(a) of <math.h>.
libm_exp[a \in Double] ==
    IF IsNaN(a) THEN NaN
    ELSE IF IsInf(a) THEN (IF a.m > 0 THEN Inf(1) ELSE Zero)
    ELSE IF a.e > 10 - MB THEN (IF a.m > 0 THEN Inf(1) ELSE Zero)
    ELSE ExpReduced[a, RoundToInt(Div(a, Ln2))]

Exp(a) == libm_exp[a]

\* 1 + s * (1/3 + s * (... (1/n + s * acc))), summed from its last term.
AtanhSeries[s \in Double, n \in Int, acc \in Double] ==
    IF n < 1 THEN acc
    ELSE AtanhSeries[s, n - 2, Add(Div(One, FromInt(n)), Mul(s, acc))]

\* 2 * atanh(u) = 2u * (1 + u^2/3 + u^4/5 + u^6/7 + u^8/9), for |u| <= 1/3.
Atanh2[u \in Double] ==
    Mul(Scale(u, 1), AtanhSeries[Mul(u, u), 7, Div(One, FromInt(9))])

\* log(f * 2^n) for 3/4 <= f < 3/2.
LogReduced[f \in Double, n \in Int] ==
    Add(Mul(FromInt(n), Ln2), Atanh2[Div(Sub(f, One), Add(f, One))])

LogNormal[M \in Int, e \in Int] ==
    IF 2 * M >= 3 * Pow2(MB - 1) THEN LogReduced[Fin(M, -MB), e + MB]
    ELSE LogReduced[Fin(M, -(MB - 1)), e + MB - 1]

\* log(a) of <math.h>: a = f * 2^n with 3/4 <= f < 3/2, log(a) = n log 2 +
\* 2 atanh((f - 1) / (f + 1)).
libm_log[a \in Double] ==
    IF IsNaN(a) THEN NaN
    ELSE IF IsZero(a) THEN Inf(-1)
    ELSE IF a.m < 0 THEN NaN
    ELSE IF IsInf(a) THEN a
    ELSE LogNormal[NormM(a), NormE(a)]

Log(a) == libm_log[a]

\* log1p(a) of <math.h>, a >= -1.
libm_log1p[a \in Double] ==
    IF IsNaN(a) THEN NaN
    ELSE IF Lt(FAbs(a), Pow2Fl(-2)) THEN Atanh2[Div(a, Add(Two, a))]
    ELSE Log(Add(One, a))

Log1p(a) == libm_log1p[a]

\* floor(sqrt(n)) for 2^26 <= n < 2^30.
Isqrt(n) == CHOOSE r \in Pow2(13) .. Pow2(15) : r * r <= n /\ n < (r + 1) * (r + 1)

\* sqrt(N * 2^e) for e even, given r = floor(sqrt(N)).
SqrtRounded[N \in Int, e \in Int, r \in Int] == Pack(1, r, e \div 2, IF r * r = N THEN 0 ELSE 1)

SqrtShifted[M \in Int, e \in Int, sh \in Int] ==
    SqrtRounded[M * Pow2(sh), e - sh, Isqrt(M * Pow2(sh))]

\* sqrt(a) of <math.h>.
libm_sqrt[a \in Double] ==
    IF IsNaN(a) THEN NaN
    ELSE IF IsZero(a) THEN Zero
    ELSE IF a.m < 0 THEN NaN
    ELSE IF IsInf(a) THEN a
    ELSE SqrtShifted[NormM(a), NormE(a), IF NormE(a) % 2 = 1 THEN 15 ELSE 14]

Sqrt(a) == libm_sqrt[a]

(***************************************************************************)
(* Constants of <float.h> and of the program.                              *)
(***************************************************************************)

DBL_MIN == Pow2Fl(-1022)

DBL_EPSILON == Pow2Fl(-52)

\* 0.9189385332046727, log(sqrt(2 * pi))
PGM_LS2PI == Dec(918938533, 9)

\* 708.3964202663686, maximum allowed exp() argument
PGM_MAX_EXP == Dec(70839642, 5)

\* 0.5641895835477563, 1 / sqrt(pi)
PGM_1_SQRTPI == Dec(564189584, 9)

\* 26.615717509251258
PGM_BIG_VAL == Dec(266157175, 7)

\* -6.003636680306125
PGM_SMALL_VAL == Dec(-600363668, 8)

\* 1e-07
PGM_CONFLUENT_EPSILON == Dec(1, 7)

HornerFrom[cs \in Seq(Double), x \in Double, i \in Int, acc \in Double] ==
    IF i > Len(cs) THEN acc ELSE HornerFrom[cs, x, i + 1, Add(Mul(acc, x), cs[i])]

\* (((c1 * x + c2) * x + c3) * x + ...) + cn for cs = <<c1, ..., cn>>.
Horner(cs, x) == HornerFrom[cs, x, 2, cs[1]]

(***************************************************************************)
(* pgm_erfc                                                                *)
(***************************************************************************)

\* p4 .. p0 and 1, q3 .. q0 of the branch x < 0.5
erfc_p_05 == <<Dec(185777706, 9), Dec(316112374, 8), Dec(113864154, 6),
               Dec(377485238, 6), Dec(320937759, 5)>>

erfc_q_05 == <<One, Dec(23601291, 6), Dec(244024638, 6), Dec(128261653, 5),
               Dec(284423683, 5)>>

\* p4 .. p0 and 1, q3 .. q0 of the branch x < 4
erfc_p_4 == <<Dec(431877874, 13), Dec(563169619, 9), Dec(303179934, 8),
              Dec(686501848, 8), Dec(737388831, 8)>>

erfc_q_4 == <<One, Dec(535421679, 8), Dec(127955295, 7), Dec(151849082, 7),
              Dec(737396089, 8)>>

\* p2 .. p0 and 1, q1, q0 of the branch x < PGM_BIG_VAL
erfc_p_big == <<Dec(-516882262, 10), Dec(-196068974, 9), Dec(-425799644, 10)>>

erfc_q_big == <<One, Dec(921452412, 9), Dec(150942071, 9)>>

\* 1 - x * P(z) / Q(z), for z = x * x
erfc_half_ratio(x, z) ==
    Sub(One, Div(Mul(x, Horner(erfc_p_05, z)), Horner(erfc_q_05, z)))

\* exp(-x * x) * P(x) / Q(x)
erfc_below_4(x) ==
    Div(Mul(Exp(Mul(Neg(x), x)), Horner(erfc_p_4, x)), Horner(erfc_q_4, x))

\* if (x * DBL_MIN > y * PGM_1_SQRTPI) return 0;
\* return y * (PGM_1_SQRTPI + z2) / x, for z2 = z1 * P(z1) / Q(z1)
erfc_big_tail(x, y, z1) ==
    IF Gt(Mul(x, DBL_MIN), Mul(y, PGM_1_SQRTPI)) THEN Zero
    ELSE Div(Mul(y, Add(PGM_1_SQRTPI,
                        Mul(z1, Div(Horner(erfc_p_big, z1), Horner(erfc_q_big, z1))))),
             x)

\* y = exp(-z) and z1 = 1 / z, for z = x * x
erfc_big_z(x, z) == erfc_big_tail(x, Exp(Neg(z)), Div(One, z))

\* The reflection without its constant doubled: 1 - pgm_erfc(-x).
erfc_reflect_one(r) == Sub(One, r)

\* return 2 - pgm_erfc(-x), given r = pgm_erfc(-x)
erfc_reflect(r) == Sub(Two, r)

\* The first test of the cascade: x < PGM_SMALL_VAL.
erfc_is_low(x) == Lt(x, PGM_SMALL_VAL)

\* What the call that made the recursive call returns, given what the
\* recursive call returned.
erfc_reflected(r) ==
    [val |-> erfc_reflect(r.val), calls |-> r.calls + 1, branch |-> "reflect"]

RECURSIVE pgm_erfc(_)
\* val: the value returned; calls: the recursive calls made for it;
\* branch: the branch of the cascade that answered.
pgm_erfc(x) ==
    IF erfc_is_low(x) THEN [val |-> Two, calls |-> 0, branch |-> "low"]
    ELSE IF Lt(x, Neg(DBL_EPSILON))
         THEN erfc_reflected(pgm_erfc(Neg(x)))
    ELSE IF Lt(x, DBL_EPSILON) THEN [val |-> One, calls |-> 0, branch |-> "zero"]
    ELSE IF Lt(x, Half)
         THEN [val |-> erfc_half_ratio(x, Mul(x, x)), calls |-> 0, branch |-> "half"]
    ELSE IF Lt(x, FromInt(4))
         THEN [val |-> erfc_below_4(x), calls |-> 0, branch |-> "four"]
    ELSE IF Lt(x, PGM_BIG_VAL)
         THEN [val |-> erfc_big_z(x, Mul(x, x)), calls |-> 0, branch |-> "big"]
    ELSE [val |-> Zero, calls |-> 0, branch |-> "high"]

(***************************************************************************)
(* pgm_lgamma                                                              *)
(***************************************************************************)

\* static const double logfactorial[200], each entry in units of 1e-6
\* (rounded); logfactorial[i + 1] here is logfactorial[i] of the source.
logfactorial == <<
    0, 0, 693147, 1791759, 3178054, 4787492,
    6579251, 8525161, 10604603, 12801827, 15104413, 17502308,
    19987214, 22552164, 25191221, 27899271, 30671860, 33505073,
    36395445, 39339884, 42335616, 45380139, 48471181, 51606676,
    54784729, 58003605, 61261702, 64557539, 67889743, 71257039,
    74658236, 78092224, 81557959, 85054467, 88580828, 92136176,
    95719695, 99330612, 102968199, 106631760, 110320640, 114034212,
    117771881, 121533082, 125317271, 129123934, 132952575, 136802723,
    140673924, 144565744, 148477767, 152409593, 156360836, 160331128,
    164320112, 168327445, 172352797, 176395848, 180456291, 184533829,
    188628173, 192739047, 196866182, 201009316, 205168199, 209342587,
    213532241, 217736934, 221956442, 226190548, 230439044, 234701723,
    238978390, 243268849, 247572914, 251890402, 256221136, 260564941,
    264921650, 269291098, 273673124, 278067573, 282474293, 286893133,
    291323950, 295766601, 300220949, 304686857, 309164194, 313652830,
    318152640, 322663499, 327185288, 331717887, 336261182, 340815059,
    345379407, 349954118, 354539086, 359134205, 363739376, 368354496,
    372979469, 377614198, 382258589, 386912549, 391575988, 396248817,
    400930948, 405622296, 410322777, 415032307, 419750806, 424478193,
    429214392, 433959324, 438712914, 443475088, 448245773, 453024896,
    457812388, 462608179, 467412200, 472224384, 477044665, 481872979,
    486709261, 491553448, 496405478, 501265291, 506132825, 511008023,
    515890825, 520781174, 525679014, 530584288, 535496943, 540416924,
    545344178, 550278652, 555220294, 560169054, 565124881, 570087726,
    575057539, 580034273, 585017879, 590008312, 595005524, 600009471,
    605020106, 610037386, 615061266, 620091704, 625128657, 630172082,
    635221938, 640278184, 645340779, 650409683, 655484857, 660566261,
    665653857, 670747608, 675847474, 680953420, 686065407, 691183401,
    696307365, 701437264, 706573062, 711714726, 716862220, 722015512,
    727174567, 732339353, 737509837, 742685987, 747867770, 753055156,
    758248113, 763446610, 768650617, 773860103, 779075039, 784295395,
    789521141, 794752250, 799988692, 805230439, 810477463, 815729736,
    820987232, 826249922, 831517780, 836790780, 842068894, 847352098,
    852640365, 857933670 >>

\* logfactorial[i] as a double, 0 <= i < 200.
TableRead(i) == Div(FromInt(logfactorial[i + 1]), FromInt(1000000))

\* a1, a2, a3: 1/12, 1/360, 1/1260
lgamma_a == <<Dec(833333333, 10), Dec(277777778, 11), Dec(793650794, 12)>>

\* z > 12: Stirling's series
lgamma_stirling(z) ==
    Add(Add(Sub(Mul(Sub(z, Half), Log(z)), z), PGM_LS2PI),
        Add(Sub(Div(lgamma_a[1], z), Div(lgamma_a[2], Mul(Mul(z, z), z))),
            Div(lgamma_a[3], Mul(Mul(Mul(z, z), Mul(z, z)), z))))

\* p4 .. p0 and 1, q3 .. q0 of the branch z >= 4
lgamma_p_4 == <<Dec(-22966073, 4), Dec(-40262112, 3), Dec(274647645, 4),
                Dec(230661511, 3), Dec(-212159572, 3)>>

lgamma_q_4 == <<One, Dec(-570691009, 6), Dec(-24235741, 3), Dec(-146025938, 3),
                Dec(-116328495, 3)>>

\* p4 .. p0 and 1, q3 .. q0 of the branch z > 1.5
lgamma_p_15 == <<Dec(416438922, 8), Dec(786994924, 7), Dec(137519416, 6),
                 Dec(-142046297, 6), Dec(-783359299, 7)>>

lgamma_q_15 == <<One, Dec(433400023, 7), Dec(263505075, 6), Dec(313399216, 6),
                 Dec(470668766, 7)>>

\* p4 .. p0 and 1, q3 .. q0 of the last branch
lgamma_p_0 == <<Dec(313060548, 8), Dec(111667541, 7), Dec(-219698959, 7),
                Dec(-244387534, 7), Dec(-266685511, 8)>>

lgamma_q_0 == <<One, Dec(152346874, 7), Dec(314690116, 7), Dec(119400906, 7),
                Dec(607771388, 9)>>

lgamma_rational_4(z) == Div(Horner(lgamma_p_4, z), Horner(lgamma_q_4, z))

lgamma_rational_15(z) ==
    Div(Mul(Sub(z, Two), Horner(lgamma_p_15, z)), Horner(lgamma_q_15, z))

lgamma_rational_05(z) ==
    Div(Mul(Sub(z, One), Horner(lgamma_p_0, z)), Horner(lgamma_q_0, z))

lgamma_shifted(z) ==
    Sub(Div(Mul(z, Horner(lgamma_p_0, Add(z, One))), Horner(lgamma_q_0, Add(z, One))),
        Log(z))

\* z < 201 && z == (size_t)z, for z >= 0
lgamma_is_lookup(z) == Lt(z, FromInt(201)) /\ Eq(z, FromInt(CastSizeT(z)))

\* The index without its offset: (size_t)z.
lgamma_index_no_offset(z) == CastSizeT(z)

\* (size_t)z - 1.  The subtraction is unsigned: for (size_t)z = 0 it wraps
\* to SIZE_MAX, which is written -1 here.
lgamma_index(z) == CastSizeT(z) - 1

\* The branch of the cascade that answers pgm_lgamma(z), z >= 0.
lgamma_branch(z) ==
    IF lgamma_is_lookup(z) THEN "lookup"
    ELSE IF Gt(z, FromInt(12)) THEN "stirling"
    ELSE IF Ge(z, FromInt(4)) THEN "rational_4"
    ELSE IF Gt(z, Dec(15, 1)) THEN "rational_15"
    ELSE IF Ge(z, Half) THEN "rational_05"
    ELSE IF Gt(z, DBL_EPSILON) THEN "shifted"
    ELSE IF Gt(z, DBL_MIN) THEN "neglog"
    ELSE "max_exp"

\* Whether the lookup branch reads inside logfactorial[200].
lgamma_in_table(i) == i >= 0 /\ i < Len(logfactorial)

\* What the branch br returns for z; idx is the index read in logfactorial
\* (-2 when the table is not read).  Where the read is outside the table,
\* NaN stands in for the value: it is chosen by LgammaCall.
lgamma_answer(z, br) ==
    [branch |-> br,
     idx    |-> IF br = "lookup" THEN lgamma_index(z) ELSE -2,
     val    |-> CASE br = "lookup" ->
                       IF lgamma_in_table(lgamma_index(z))
                       THEN TableRead(lgamma_index(z)) ELSE NaN
                  [] br = "stirling" -> lgamma_stirling(z)
                  [] br = "rational_4" -> lgamma_rational_4(z)
                  [] br = "rational_15" -> lgamma_rational_15(z)
                  [] br = "rational_05" -> lgamma_rational_05(z)
                  [] br = "shifted" -> lgamma_shifted(z)
                  [] br = "neglog" -> Neg(Log(z))
                  [] OTHER -> PGM_MAX_EXP]

\* pgm_lgamma(z) for z >= 0.
pgm_lgamma(z) == lgamma_answer(z, lgamma_branch(z))

(***************************************************************************)
(* random_left_bounded_gamma                                               *)
(***************************************************************************)

\* The branches with a == 1 sent to the rejection loop of a > 1.
sampler_regime_no_eq(a) == IF Ge(a, One) THEN "gt1" ELSE "lt1"

\* The branch of random_left_bounded_gamma: a > 1, a == 1, or neither.
sampler_regime(a) ==
    IF Gt(a, One) THEN "gt1" ELSE IF Eq(a, One) THEN "eq1" ELSE "lt1"

\* c0 = 0.5 * (bmina + sqrt(bmina * bmina + 4 * b)) / b, for bmina = b - a
sampler_c0(bs, bmina) ==
    Div(Mul(Half, Add(bmina, Sqrt(Add(Mul(bmina, bmina), Mul(FromInt(4), bs))))), bs)

\* log_m = amin1 * (log(amin1 / one_minus_c0) - 1)
sampler_log_m(amin1, omc0) == Mul(amin1, Sub(Log(Div(amin1, omc0)), One))

sampler_setup_gt1(bs, amin1, c0) ==
    [bs |-> bs, amin1 |-> amin1, c0 |-> c0, omc0 |-> Sub(One, c0),
     log_m |-> sampler_log_m(amin1, Sub(One, c0))]

\* The constants computed before the loop.  For a > 1: bs is b after
\* b = t * b.  For a < 1: bs is tb.
sampler_setup(a, b, t) ==
    IF sampler_regime(a) = "gt1"
    THEN sampler_setup_gt1(Mul(t, b), Sub(a, One),
                           sampler_c0(Mul(t, b), Sub(Mul(t, b), a)))
    ELSE [bs |-> Mul(t, b), amin1 |-> Sub(a, One), c0 |-> Zero, omc0 |-> Zero,
          log_m |-> Zero]

\* The proposal x made from the standard-exponential draw E.
sampler_propose(regime, k, E) ==
    IF regime = "gt1" THEN Add(k.bs, Div(E, k.c0)) ELSE Add(One, Div(E, k.bs))

\* The right-hand side of the loop condition.
sampler_threshold(regime, k, x) ==
    IF regime = "gt1"
    THEN Sub(Sub(Mul(k.amin1, Log(x)), Mul(x, k.omc0)), k.log_m)
    ELSE Mul(k.amin1, Log(x))

\* The values random_standard_uniform may return: doubles in [0, 1).
UnifDraws == {Zero, Dec(25, 2), Half, Dec(875, 3), Sub(One, Pow2Fl(-10))}

\* The left-hand side with the sign of U lost: log1p(U).
sampler_log_uniform_plus(U) == Log1p(U)

\* The left-hand side of the loop condition: log1p(-U).
sampler_log_uniform(U) == Log1p(Neg(U))

\* log1p(-U) for each value U of the standard-uniform draw.
UniformLogs == [U \in UnifDraws |-> sampler_log_uniform(U)]

\* The loop condition: log1p(-U) > threshold, for the standard-uniform draw U.
sampler_rejects(U, thr) == Gt(UniformLogs[U], thr)

\* The value returned for the accepted proposal x.
sampler_result(regime, k, t, x) ==
    IF regime = "gt1" THEN Mul(t, Div(x, k.bs)) ELSE Mul(t, x)

\* return t + random_standard_exponential(bitgen_state) / b
sampler_exponential(b, t, E) == Add(t, Div(E, b))

(***************************************************************************)
(* confluent_x_smaller, confluent_p_smaller                                *)
(***************************************************************************)

\* The bound of both loops: n < 100.
LentzCap == 100

\* if (c < DBL_MIN) c = DBL_MIN, and the same for d
lentz_floor(v) == IF Lt(v, DBL_MIN) THEN DBL_MIN ELSE v

\* fabs(delta - 1) < PGM_CONFLUENT_EPSILON
lentz_converged(delta) == Lt(FAbs(Sub(delta, One)), PGM_CONFLUENT_EPSILON)

\* Both loops started at n = 0.
lentz_first_n_zero(route) == 0

\* The first value of n in each loop.
lentz_first_n(route) == IF route = "xs" THEN 2 ELSE 1

\* The locals of confluent_x_smaller(p, x) when its loop is entered.
confluent_x_smaller_init(p, x) ==
    [n |-> lentz_first_n("xs"), a |-> One, b |-> p, b1 |-> p,
     r |-> Mul(Neg(Sub(p, One)), x), s |-> Mul(Half, x),
     f |-> Div(One, p), c |-> Div(One, DBL_MIN), d |-> Div(One, p)]

\* The locals of confluent_p_smaller(p, x) when its loop is entered.
confluent_p_smaller_init(p, x) ==
    LET b == Add(Sub(x, p), One)
    IN  [n |-> lentz_first_n("ps"), a |-> One, b |-> b, b1 |-> b,
         r |-> Zero, s |-> Zero,
         f |-> Div(One, b), c |-> Div(One, DBL_MIN), d |-> Div(One, b)]

\* a_n and b_n of confluent_x_smaller.
x_smaller_a(g) ==
    IF g.n % 2 = 1 THEN Mul(g.s, FromInt(g.n - 1))
    ELSE Sub(g.r, Mul(g.s, FromInt(g.n)))

x_smaller_b(g) == Add(g.b, One)

\* a_n and b_n of confluent_p_smaller.
p_smaller_a(g) == Mul(FromInt(g.n), Sub(g.p, FromInt(g.n)))

p_smaller_b(g) == Add(g.b, Two)

\* The end of a pass: brk says whether the break is taken; n++ otherwise.
lentz_test(h, brk) ==
    [h EXCEPT !.iters = h.iters + 1,
              !.passes = h.passes + (IF brk THEN 1 ELSE 0),
              !.conv = brk,
              !.n = IF brk THEN h.n ELSE h.n + 1]

\* delta = c * d; f *= delta, for c after its guard and d = 1 / d.
lentz_update(g, c, d) ==
    lentz_test([g EXCEPT !.c = c, !.d = d, !.delta = Mul(c, d),
                         !.f = Mul(g.f, Mul(c, d))],
               lentz_converged(Mul(c, d)))

\* cpre, dpre: c and d before their guards; dg: d after its guard, the
\* divisor of d = 1 / d; cdiv: the divisor of a / c.
lentz_guard(g, a, b, cpre, dpre) ==
    lentz_update([g EXCEPT !.a = a, !.b = b, !.cpre = cpre, !.dpre = dpre,
                           !.dg = lentz_floor(dpre), !.cdiv = g.c],
                 lentz_floor(cpre), Div(One, lentz_floor(dpre)))

\* One pass through the body of either loop, with a and b of this pass.
lentz_body(g, a, b) ==
    lentz_guard(g, a, b, Add(b, Div(a, g.c)), Add(Mul(a, g.d), b))

(***************************************************************************)
(* pgm_gammaq                                                              *)
(***************************************************************************)

\* p == p_int && p < 30, for size_t p_int = (size_t)p
gammaq_is_integer(p) == Eq(p, FromInt(CastSizeT(p))) /\ Lt(p, FromInt(30))

\* p == (p_int + 0.5) && p < 30
gammaq_is_half_integer(p) ==
    Eq(p, Add(FromInt(CastSizeT(p)), Half)) /\ Lt(p, FromInt(30))

\* sum += (r *= x / k), k++ for the divisor k or k - 0.5
series_step(g, divisor) ==
    [g EXCEPT !.sr = Mul(g.sr, Div(g.x, divisor)),
              !.sum = Add(g.sum, Mul(g.sr, Div(g.x, divisor))),
              !.k = g.k + 1]

\* return exp(-x) * sum
gammaq_integer(x, sum) == Mul(Exp(Neg(x)), sum)

\* return pgm_erfc(sqrt_x) + exp(-x) * one_sqrtpi * sum / sqrt_x
gammaq_half_integer(x, sum) ==
    Add(pgm_erfc(Sqrt(x)).val,
        Div(Mul(Mul(Exp(Neg(x)), PGM_1_SQRTPI), sum), Sqrt(x)))

\* The selection with a strict test: p > x.
gammaq_x_smaller_strict(p, x) == Gt(p, x)

\* bool x_smaller = p >= x
gammaq_x_smaller(p, x) == Ge(p, x)

\* -x + p * log(x)
gammaq_log_term(p, x) == Add(Neg(x), Mul(p, Log(x)))

\* v >= PGM_MAX_EXP ? exp(PGM_MAX_EXP) : exp(v)
gammaq_exp_capped(v) == Exp(IF Ge(v, PGM_MAX_EXP) THEN PGM_MAX_EXP ELSE v)

\* arg after the two tests that clip it to [-PGM_MAX_EXP, PGM_MAX_EXP]
gammaq_clip(arg) ==
    IF Ge(arg, PGM_MAX_EXP) THEN PGM_MAX_EXP
    ELSE IF Le(arg, Neg(PGM_MAX_EXP)) THEN Neg(PGM_MAX_EXP)
    ELSE arg

\* (1 - f * exp(arg)) * exp_lgam, for lgam = pgm_lgamma(p)
gammaq_lower(p, x, f, lgam) ==
    Mul(Sub(One, Mul(f, Exp(gammaq_clip(Sub(gammaq_log_term(p, x), lgam))))),
        gammaq_exp_capped(lgam))

\* out = f * exp(-x + p * log(x) - pgm_lgamma(p))
gammaq_normalized(x_smaller, out) == IF x_smaller THEN Sub(One, out) ELSE out

\* The value returned after the continued fraction gave f.
gammaq_combine(p, x, normalized, x_smaller, f, lgam) ==
    IF normalized
    THEN gammaq_normalized(x_smaller, Mul(f, Exp(Sub(gammaq_log_term(p, x), lgam))))
    ELSE IF x_smaller THEN gammaq_lower(p, x, f, lgam)
    ELSE Mul(f, gammaq_exp_capped(gammaq_log_term(p, x)))

(***************************************************************************)
(* The calls made on the library.  One behaviour is one call: an entry     *)
(* point is chosen with its arguments, runs, and returns.                  *)
(***************************************************************************)

VARIABLES
    pc,     \* where the call is: "idle", then a position in the function called
    er,     \* pgm_erfc: the argument and what was returned
    lg,     \* pgm_lgamma: the argument and what was returned
    gq,     \* pgm_gammaq: the arguments, the locals of the continued fraction, the result
    smp     \* random_left_bounded_gamma: the arguments, the locals, the draws made

vars == <<pc, er, lg, gq, smp>>

\* The draw counters stop counting here; the loops do not stop.
MaxDraws == 3

\* The number of latest draws remembered in smp.hist.
HistLen == 4

\* pgm_lgamma is called on every integer from 0 to this one.
MaxLgammaInt == 204

Count(n) == IF n < MaxDraws THEN n + 1 ELSE n

Push(h, d) == IF Len(h) < HistLen THEN Append(h, d) ELSE Append(Tail(h), d)

\* The double above a positive normal double.
NextUp(a) == Pack(1, a.m + 1, a.e, 0)

Signed(S) == S \cup {Neg(a) : a \in S}

ErfcInputs ==
    Signed({Zero, Pow2Fl(-1022), Pow2Fl(-60), Pow2Fl(-53), DBL_EPSILON,
            NextUp(DBL_EPSILON), Pow2Fl(-51), Pow2Fl(-20), Dec(1, 1), Dec(25, 2),
            Dec(4, 1), Half, Dec(75, 2), One, Dec(15, 1), Two, Dec(25, 1),
            FromInt(3), Dec(35, 1), FromInt(4), Dec(45, 1), FromInt(5),
            Dec(55, 1), FromInt(6), Neg(PGM_SMALL_VAL), NextUp(Neg(PGM_SMALL_VAL)),
            Dec(65, 1), FromInt(7), FromInt(10), FromInt(20), FromInt(26),
            PGM_BIG_VAL, FromInt(27), FromInt(100), Pow2Fl(600), Pow2Fl(1023)})

LgammaInputs ==
    {FromInt(n) : n \in 0 .. MaxLgammaInt}
    \cup {Pow2Fl(EMin), Pow2Fl(-1030), Pow2Fl(-1023), DBL_MIN, NextUp(DBL_MIN),
          Pow2Fl(-1000), Pow2Fl(-60), DBL_EPSILON, NextUp(DBL_EPSILON),
          Pow2Fl(-20), Dec(3, 1), Half, Dec(7, 1), Dec(12, 1), Dec(15, 1),
          Dec(25, 1), Dec(45, 1), Dec(115, 1), Dec(125, 1), Dec(1997, 1),
          Dec(2005, 1), FromInt(1000), FromInt(4096), Pow2Fl(600)}

\* What a read outside logfactorial[200] may give: any double.
OutOfBoundsReads == {Zero, PGM_MAX_EXP, FromInt(-1), Inf(1), NaN}

\* <<p, x, normalized>>
GammaqInputs ==
    ({One, Two, FromInt(3), FromInt(10), FromInt(29)}
        \X {Zero, Half, One, FromInt(5), FromInt(40)} \X {TRUE})
    \cup ({Half, Dec(15, 1), Dec(25, 1), Dec(295, 1)}
        \X {Zero, Half, One, FromInt(5), FromInt(40)} \X {TRUE})
    \cup ({Dec(3, 1), Dec(225, 2), FromInt(30), Dec(305, 1), FromInt(100)}
        \X {Zero, Dec(1, 1), Dec(3, 1), NextUp(Dec(3, 1)), Two, Dec(225, 2),
            FromInt(30), FromInt(31), FromInt(100), FromInt(150)} \X {TRUE, FALSE})
    \cup ({FromInt(1000), FromInt(4096)}
        \X {FromInt(900), FromInt(1000), FromInt(1001), FromInt(4096)} \X {TRUE, FALSE})
    \cup ({Pow2Fl(-1030), DBL_MIN} \X {Zero, Pow2Fl(-1030), One} \X {TRUE, FALSE})
    \cup ({Pow2Fl(60), Pow2Fl(600)} \X {Zero, One, Pow2Fl(60), Pow2Fl(600)} \X {FALSE})

SamplerShapes == {Two, Dec(15, 1), FromInt(5), One, Half, Dec(25, 2)}

SamplerRates == {One, Two}

SamplerBounds == {FromInt(3), Half}

\* The values random_standard_exponential may return: doubles >= 0.
ExpDraws == {Zero, Dec(25, 2), One, FromInt(3)}

NoSetup == [bs |-> Zero, amin1 |-> Zero, c0 |-> Zero, omc0 |-> Zero, log_m |-> Zero]

Init ==
    /\ pc = "idle"
    /\ er = [x |-> Zero, val |-> Zero, calls |-> 0, branch |-> "none"]
    /\ lg = [z |-> Zero, val |-> Zero, idx |-> -2, branch |-> "none"]
    /\ gq = [p |-> Zero, x |-> Zero, normalized |-> FALSE, route |-> "none",
             k |-> 0, sr |-> Zero, sum |-> Zero,
             n |-> 0, a |-> Zero, b |-> Zero, b1 |-> Zero, r |-> Zero, s |-> Zero,
             f |-> Zero, c |-> Zero, d |-> Zero, delta |-> Zero,
             cpre |-> Zero, dpre |-> Zero, dg |-> Zero, cdiv |-> Zero,
             iters |-> 0, passes |-> 0, conv |-> FALSE, out |-> Zero]
    /\ smp = [a |-> Zero, b |-> Zero, t |-> Zero, regime |-> "none", k |-> NoSetup,
              x |-> Zero, thr |-> Zero, E |-> Zero, U |-> Zero,
              nExp |-> 0, nUnif |-> 0, hist |-> <<>>, out |-> Zero]

\* pgm_erfc(x)
ErfcCall(x) ==
    /\ pc = "idle"
    /\ pc' = "erfc_done"
    /\ er' = [x |-> x] @@ pgm_erfc(x)
    /\ UNCHANGED <<lg, gq, smp>>

\* The return of pgm_lgamma(z), given the answer res of its cascade.  A read
\* outside the table is undefined behaviour: the value returned is any double.
LgammaReturn(z, res) ==
    IF res.branch = "lookup" /\ ~lgamma_in_table(res.idx)
    THEN \E v \in OutOfBoundsReads : lg' = [z |-> z] @@ [res EXCEPT !.val = v]
    ELSE lg' = [z |-> z] @@ res

\* pgm_lgamma(z)
LgammaCall(z) ==
    /\ pc = "idle"
    /\ pc' = "lgamma_done"
    /\ LgammaReturn(z, pgm_lgamma(z))
    /\ UNCHANGED <<er, gq, smp>>

\* pgm_gammaq(p, x, normalized) up to the entry of the loop of a closed
\* form or of a continued fraction.
GammaqCall(p, x, normalized) ==
    /\ pc = "idle"
    /\ LET g == [gq EXCEPT !.p = p, !.x = x, !.normalized = normalized]
       IN  IF normalized /\ gammaq_is_integer(p)
           THEN /\ gq' = [g EXCEPT !.route = "integer", !.k = 1, !.sr = One,
                                   !.sum = One]
                /\ pc' = "integer_loop"
           ELSE IF normalized /\ gammaq_is_half_integer(p)
           THEN /\ gq' = [g EXCEPT !.route = "half_integer", !.k = 1, !.sr = One,
                                   !.sum = Zero]
                /\ pc' = "half_integer_loop"
           ELSE IF gammaq_x_smaller(p, x)
           THEN /\ gq' = [route |-> "xs"] @@ confluent_x_smaller_init(p, x) @@ g
                /\ pc' = "x_smaller_loop"
           ELSE /\ gq' = [route |-> "ps"] @@ confluent_p_smaller_init(p, x) @@ g
                /\ pc' = "p_smaller_loop"
    /\ UNCHANGED <<er, lg, smp>>

\* for (k = sum = r = 1; k < p_int; k++) sum += (r *= x / k)
IntegerStep ==
    /\ pc = "integer_loop"
    /\ gq.k < CastSizeT(gq.p)
    /\ gq' = series_step(gq, FromInt(gq.k))
    /\ UNCHANGED <<pc, er, lg, smp>>

\* The loop of the integer route is left and its closed form returned.
IntegerReturn ==
    /\ pc = "integer_loop"
    /\ gq.k >= CastSizeT(gq.p)
    /\ gq' = [gq EXCEPT !.out = gammaq_integer(gq.x, gq.sum)]
    /\ pc' = "gammaq_done"
    /\ UNCHANGED <<er, lg, smp>>

\* for (k = r = 1, sum = 0; k < p_int + 1; k++) sum += (r *= x / (k - 0.5))
HalfIntegerStep ==
    /\ pc = "half_integer_loop"
    /\ gq.k < CastSizeT(gq.p) + 1
    /\ gq' = series_step(gq, Sub(FromInt(gq.k), Half))
    /\ UNCHANGED <<pc, er, lg, smp>>

\* The loop of the half-integer route is left and its closed form returned.
HalfIntegerReturn ==
    /\ pc = "half_integer_loop"
    /\ gq.k >= CastSizeT(gq.p) + 1
    /\ gq' = [gq EXCEPT !.out = gammaq_half_integer(gq.x, gq.sum)]
    /\ pc' = "gammaq_done"
    /\ UNCHANGED <<er, lg, smp>>

\* One pass of the loop of confluent_x_smaller.
XSmallerStep ==
    /\ pc = "x_smaller_loop"
    /\ ~gq.conv
    /\ gq.n < LentzCap
    /\ gq' = lentz_body(gq, x_smaller_a(gq), x_smaller_b(gq))
    /\ UNCHANGED <<pc, er, lg, smp>>

\* One pass of the loop of confluent_p_smaller.
PSmallerStep ==
    /\ pc = "p_smaller_loop"
    /\ ~gq.conv
    /\ gq.n < LentzCap
    /\ gq' = lentz_body(gq, p_smaller_a(gq), p_smaller_b(gq))
    /\ UNCHANGED <<pc, er, lg, smp>>

\* The loop is left, by break or by n reaching 100; f is returned to
\* pgm_gammaq, which returns.
GammaqReturn ==
    /\ pc \in {"x_smaller_loop", "p_smaller_loop"}
    /\ gq.conv \/ gq.n >= LentzCap
    /\ gq' = [gq EXCEPT !.out = gammaq_combine(gq.p, gq.x, gq.normalized,
                                               gq.route = "xs", gq.f,
                                               pgm_lgamma(gq.p).val)]
    /\ pc' = "gammaq_done"
    /\ UNCHANGED <<er, lg, smp>>

\* random_left_bounded_gamma(bitgen_state, a, b, t) up to its first draw.
SamplerCall(a, b, t) ==
    /\ pc = "idle"
    /\ smp' = [smp EXCEPT !.a = a, !.b = b, !.t = t, !.regime = sampler_regime(a),
                          !.k = sampler_setup(a, b, t)]
    /\ pc' = IF sampler_regime(a) = "eq1" THEN "sampler_exponential" ELSE "sampler_loop"
    /\ UNCHANGED <<er, lg, gq>>

\* a == 1: one standard-exponential draw E, and the return.
SamplerExponential(E) ==
    /\ pc = "sampler_exponential"
    /\ smp' = [smp EXCEPT !.E = E, !.nExp = Count(smp.nExp),
                          !.hist = Push(smp.hist, "E"),
                          !.out = sampler_exponential(smp.b, smp.t, E)]
    /\ pc' = "sampler_done"
    /\ UNCHANGED <<er, lg, gq>>

\* The loop body with the proposal of an earlier pass kept: E is drawn, x and
\* threshold are not assigned.
sampler_proposed_stale(s, E, x) ==
    [s EXCEPT !.E = E, !.nExp = Count(s.nExp), !.hist = Push(s.hist, "E")]

\* The locals and the draws after the first statement of the loop body, which
\* drew E and proposed x; thr is the right-hand side of the loop condition.
sampler_proposed(s, E, x) ==
    [s EXCEPT !.E = E, !.x = x, !.thr = sampler_threshold(s.regime, s.k, x),
              !.nExp = Count(s.nExp), !.hist = Push(s.hist, "E")]

\* The draws after the loop condition drew U.
sampler_tested(s, U) ==
    [s EXCEPT !.U = U, !.nUnif = Count(s.nUnif), !.hist = Push(s.hist, "U")]

\* The locals at the return, s being those after the last test.
sampler_return(s) ==
    [s EXCEPT !.out = sampler_result(s.regime, s.k, s.t, s.x)]

\* The body of the do-while loop: the draw E and the proposal.
SamplerPropose(E) ==
    /\ pc = "sampler_loop"
    /\ smp' = sampler_proposed(smp, E, sampler_propose(smp.regime, smp.k, E))
    /\ pc' = "sampler_test"
    /\ UNCHANGED <<er, lg, gq>>

\* The loop condition, drawing U, holds: the loop goes on.
SamplerReject(U) ==
    /\ pc = "sampler_test"
    /\ sampler_rejects(U, smp.thr)
    /\ smp' = sampler_tested(smp, U)
    /\ pc' = "sampler_loop"
    /\ UNCHANGED <<er, lg, gq>>

\* The loop condition, drawing U, fails: the loop is left and the sample
\* returned.
SamplerAccept(U) ==
    /\ pc = "sampler_test"
    /\ ~sampler_rejects(U, smp.thr)
    /\ smp' = sampler_return(sampler_tested(smp, U))
    /\ pc' = "sampler_done"
    /\ UNCHANGED <<er, lg, gq>>

SamplerProposes == \E E \in ExpDraws : SamplerPropose(E)

SamplerRejects == \E U \in UnifDraws : SamplerReject(U)

SamplerAccepts == \E U \in UnifDraws : SamplerAccept(U)

Next ==
    \/ \E x \in ErfcInputs : ErfcCall(x)
    \/ \E z \in LgammaInputs : LgammaCall(z)
    \/ \E i \in GammaqInputs : GammaqCall(i[1], i[2], i[3])
    \/ IntegerStep
    \/ IntegerReturn
    \/ HalfIntegerStep
    \/ HalfIntegerReturn
    \/ XSmallerStep
    \/ PSmallerStep
    \/ GammaqReturn
    \/ \E a \in SamplerShapes, b \in SamplerRates, t \in SamplerBounds :
           SamplerCall(a, b, t)
    \/ \E E \in ExpDraws : SamplerExponential(E)
    \/ SamplerProposes
    \/ SamplerRejects
    \/ SamplerAccepts

Spec == Init /\ [][Next]_vars

\* The generator returns from each draw, and eventually yields a pair of
\* draws that passes the acceptance test.
FairSpec ==
    Spec /\ WF_vars(SamplerProposes) /\ WF_vars(SamplerRejects \/ SamplerAccepts)
         /\ SF_vars(SamplerAccepts)

(***************************************************************************)
(* Properties of random_left_bounded_gamma                                 *)
(***************************************************************************)

SamplerDone == pc = "sampler_done"

\* C1: whenever random_left_bounded_gamma returns, the sample returned is
\* strictly greater than t, in each of the regimes a > 1, a == 1 and a < 1.
C1_SampleAboveBound == SamplerDone => Gt(smp.out, smp.t)

\* C1: a call returned the bound t itself, after the exponential draw 0.
C1_SampleEqualsBound == SamplerDone /\ IsZero(smp.E) /\ Eq(smp.out, smp.t)

\* C2 as written: every call that returns has consumed at least one
\* exponential draw and at least one uniform draw, whatever the regime.
C2_DrawsOfBothKinds == SamplerDone => smp.nExp >= 1 /\ smp.nUnif >= 1

\* C2 as the code has it: every call that returns has consumed at least one
\* exponential draw; for a # 1 it has consumed at least one uniform draw and
\* as many uniform draws as exponential ones; for a == 1 it has consumed
\* exactly one exponential draw and no uniform draw.
C2_DrawsByRegime ==
    SamplerDone =>
        /\ smp.nExp >= 1
        /\ Eq(smp.a, One) => smp.nExp = 1 /\ smp.nUnif = 0
        /\ ~Eq(smp.a, One) => smp.nUnif >= 1 /\ smp.nUnif = smp.nExp

\* C2: a call with a == 1 returned without a uniform draw.
C2_ExponentialOnly ==
    SamplerDone /\ Eq(smp.a, One) /\ smp.nExp = 1 /\ smp.nUnif = 0

(***************************************************************************)
(* Properties of pgm_gammaq at x = 0 and of pgm_lgamma                     *)
(***************************************************************************)

GammaqDone == pc = "gammaq_done"

\* C3: for every p > 0, pgm_gammaq(p, 0, true) returns exactly 1, never NaN
\* or an infinity, on the integer route, the half-integer route and the
\* continued-fraction route.
C3_OneAtZero ==
    GammaqDone /\ gq.normalized /\ Gt(gq.p, Zero) /\ IsZero(gq.x) => gq.out = One

\* C3: the half-integer route returned NaN for x = 0.
C3_HalfIntegerNaN ==
    GammaqDone /\ gq.route = "half_integer" /\ IsZero(gq.x) /\ IsNaN(gq.out)

LgammaDone == pc = "lgamma_done"

\* C4: for every z with 0 <= z <= DBL_MIN, z == 0 included, pgm_lgamma
\* returns PGM_MAX_EXP and does not take the table-lookup branch.
C4_CeilingBelowDblMin ==
    LgammaDone /\ Ge(lg.z, Zero) /\ Le(lg.z, DBL_MIN) =>
        lg.val = PGM_MAX_EXP /\ lg.branch # "lookup"

\* C4: pgm_lgamma(0) took the lookup branch and read outside the table.
C4_ZeroReadsOutside ==
    LgammaDone /\ IsZero(lg.z) /\ lg.branch = "lookup" /\ ~lgamma_in_table(lg.idx)

\* The E with 3/4 <= n / 2^E < 3/2, for 1 <= n < 384.
LnExponent(n) == CHOOSE E \in 0 .. 8 : 3 * Pow2(E) <= 4 * n /\ 4 * n < 3 * Pow2(E + 1)

RECURSIVE AtanhTerms(_, _, _, _)
\* t / k + t (a/b)^2 / (k + 2) + ..., in whole units.
AtanhTerms(t, a, b, k) ==
    IF t = 0 THEN 0
    ELSE t \div k + AtanhTerms((((t * a) \div b) * a) \div b, a, b, k + 2)

\* 10^7 * log(n) = 10^7 * (E log 2 + 2 atanh((n - 2^E) / (n + 2^E))), in
\* integer arithmetic.
LnScaled(n, E) ==
    E * 6931472
      + Sgn(n - Pow2(E))
          * 2 * AtanhTerms((10 ^ 7 * Abs(n - Pow2(E))) \div (n + Pow2(E)),
                           Abs(n - Pow2(E)), n + Pow2(E), 1)

\* 10^6 * log(n), rounded.
LnMicro(n) == (LnScaled(n, LnExponent(n)) + 5) \div 10

\* logfactorial[i] is log(i!): it is 0 for i = 0, and for i >= 1 it is
\* logfactorial[i - 1] + log(i), to one unit of the sixth decimal.
TableIsLogFactorial(i) ==
    IF i = 0 THEN logfactorial[1] = 0
    ELSE Abs(logfactorial[i + 1] - logfactorial[i] - LnMicro(i)) <= 1

\* C5: for every integer n in [1, 200], pgm_lgamma(n) is answered by the
\* lookup branch, which reads the table of 200 entries at index n - 1, in
\* [0, 199], and that entry is log((n - 1)!); for an integer n >= 201 the
\* table is not read.
C5_IntegersReadTable ==
    LgammaDone =>
        /\ Len(logfactorial) = 200
        /\ \A n \in 1 .. MaxLgammaInt :
               lg.z = FromInt(n) =>
                   IF n <= 200
                   THEN /\ lg.branch = "lookup"
                        /\ lg.idx = n - 1
                        /\ lg.idx \in 0 .. 199
                        /\ lg.val = TableRead(n - 1)
                        /\ TableIsLogFactorial(n - 1)
                   ELSE lg.branch # "lookup" /\ lg.idx = -2

\* C5: pgm_lgamma(200) read the last entry of the table.
C5_LastEntryRead ==
    LgammaDone /\ lg.z = FromInt(200) /\ lg.branch = "lookup" /\ lg.idx = 199

(***************************************************************************)
(* Properties of the rejection loops                                       *)
(***************************************************************************)

SamplerInLoop == pc \in {"sampler_loop", "sampler_test"}

\* Some pair of draws keeps the call in its loop.
SamplerCanReject ==
    \E E \in ExpDraws, U \in UnifDraws :
        sampler_rejects(U, sampler_threshold(smp.regime, smp.k,
                                             sampler_propose(smp.regime, smp.k, E)))

\* C6: the rejection loops (a > 1 and a < 1) have no iteration cap: in
\* every pass of the loop some pair of draws is rejected, so some draw
\* sequence keeps the call in the loop for ever; where the generator
\* eventually yields a pair of draws that passes the acceptance test, the
\* call eventually returns; and the loop is left only by the return.
C6_ReturnsUnderFairness ==
    /\ SamplerInLoop ~> SamplerDone
    /\ [](pc = "sampler_loop" => SamplerCanReject)
    /\ [][SamplerInLoop => SamplerInLoop' \/ SamplerDone']_vars

\* C6: a call is still in its loop after MaxDraws passes.
C6_StillInLoop ==
    pc = "sampler_loop" /\ smp.nExp = MaxDraws /\ smp.nUnif = MaxDraws

SamplerRejection == smp.regime \in {"gt1", "lt1"}

\* The draws remembered in h are of alternating kinds.
DrawsAlternate(h) == \A i \in 1 .. Len(h) - 1 : h[i] # h[i + 1]

LastDraw(h) == IF Len(h) = 0 THEN "none" ELSE h[Len(h)]

\* t * (x / b) for a > 1 and t * x for a < 1, x being the proposal made
\* from the exponential draw E.
ReturnedFrom(E) ==
    IF smp.regime = "gt1"
    THEN Mul(smp.t, Div(Add(smp.k.bs, Div(E, smp.k.c0)), smp.k.bs))
    ELSE Mul(smp.t, Add(One, Div(E, smp.k.bs)))

\* Where the call is in a rejection regime: the draws alternate; at the top
\* of a pass as many uniform draws as exponential draws were made, the last
\* one uniform; at the loop condition the last draw is exponential, one more
\* than the uniform draws (the counters stop at MaxDraws); at the return the
\* last draw is a uniform draw U that passed the test against the threshold
\* of the last exponential draw E, and the sample is computed from that E.
DrawsInStep ==
    SamplerRejection =>
        /\ DrawsAlternate(smp.hist)
        /\ pc = "sampler_loop" =>
               LastDraw(smp.hist) \in {"none", "U"} /\ smp.nExp = smp.nUnif
        /\ pc = "sampler_test" =>
               /\ LastDraw(smp.hist) = "E"
               /\ smp.nExp = smp.nUnif + 1 \/ smp.nExp = MaxDraws
        /\ pc = "sampler_done" =>
               /\ LastDraw(smp.hist) = "U"
               /\ smp.nExp = smp.nUnif /\ smp.nExp >= 1
               /\ smp.x = sampler_propose(smp.regime, smp.k, smp.E)
               /\ smp.thr = sampler_threshold(smp.regime, smp.k, smp.x)
               /\ ~Gt(Log1p(Neg(smp.U)), smp.thr)
               /\ smp.out = ReturnedFrom(smp.E)

\* A pass makes one exponential draw, then one uniform draw, and the call
\* returns only from the loop condition.
DrawsStep ==
    /\ pc = "sampler_loop" /\ pc' # pc =>
           pc' = "sampler_test" /\ smp'.hist = Push(smp.hist, "E")
    /\ pc = "sampler_test" /\ pc' # pc =>
           /\ pc' \in {"sampler_loop", "sampler_done"}
           /\ smp'.hist = Push(smp.hist, "U")
           /\ smp'.E = smp.E /\ smp'.x = smp.x /\ smp'.thr = smp.thr
    /\ pc' = "sampler_done" /\ pc # pc' /\ smp'.regime # "eq1" => pc = "sampler_test"

\* C11: in the rejection regimes (a > 1 and a < 1) the draws alternate
\* strictly: every pass of the loop makes exactly one standard-exponential
\* draw followed by exactly one fresh standard-uniform draw; the call
\* returns only immediately after a uniform draw that passes the acceptance
\* test; and the value returned is computed from the exponential draw of
\* that same last pass, never from a rejected proposal.
C11_DrawsAlternateToReturn == []DrawsInStep /\ [][DrawsStep]_vars

\* C11: a call returned from its second pass, the first proposal rejected.
C11_ReturnedFromSecondPass ==
    /\ pc = "sampler_done"
    /\ SamplerRejection
    /\ smp.nExp = 2 /\ smp.nUnif = 2
    /\ smp.hist = <<"E", "U", "E", "U">>
    /\ smp.out = ReturnedFrom(smp.E)

(***************************************************************************)
(* Properties of pgm_erfc                                                  *)
(***************************************************************************)

ErfcDone == pc = "erfc_done"

\* v is 2 to two units in the last place of the arithmetic (2^-51 in
\* binary64, below the relative tolerance 1e-9).
NearTwo(v) == Le(FAbs(Sub(v, Two)), Pow2Fl(2 - MB))

\* What C7 says of pgm_erfc(x), given other = pgm_erfc(-x).
ErfcReflection(other) ==
    /\ IsFin(er.x) => NearTwo(Add(er.val, other.val))
    /\ Ge(er.x, PGM_SMALL_VAL) /\ Lt(er.x, Neg(DBL_EPSILON)) =>
           /\ er.branch = "reflect"
           /\ er.val = Sub(Two, other.val)
           /\ er.calls = 1
           /\ other.calls = 0
    /\ Lt(FAbs(er.x), DBL_EPSILON) => er.val = One /\ other.val = One

\* C7: for every finite x, pgm_erfc(x) + pgm_erfc(-x) is 2 within the
\* tolerance; for a negative x at or above PGM_SMALL_VAL and below
\* -DBL_EPSILON the result is 2 - pgm_erfc(-x), got by one recursive call,
\* which makes none; for |x| < DBL_EPSILON both sides are 1.
C7_ReflectionSumsToTwo == ErfcDone => ErfcReflection(pgm_erfc(Neg(er.x)))

\* C7: a call answered by the reflection, strictly between 1 and 2.
C7_Reflected ==
    ErfcDone /\ er.branch = "reflect" /\ er.calls = 1 /\ Gt(er.val, One) /\ Lt(er.val, Two)

(***************************************************************************)
(* Properties of the continued fractions                                   *)
(***************************************************************************)

LentzRoute == gq.route \in {"xs", "ps"}

LentzInLoop == pc \in {"x_smaller_loop", "p_smaller_loop"}

\* The loop stops at the first pass whose delta passes the test: the passes
\* that passed it are one, the last, or none.
LentzStopsAtFirst ==
    /\ gq.passes = (IF gq.conv THEN 1 ELSE 0)
    /\ gq.conv => lentz_converged(gq.delta)

\* C8 as written: each evaluator stops at the first pass with
\* |delta - 1| < 1e-7, and where no pass has it, it stops after 100 passes
\* and returns f.
C8_CapOfHundred ==
    LentzRoute =>
        /\ LentzStopsAtFirst
        /\ GammaqDone /\ ~gq.conv => gq.iters = 100

\* C8 as the code has it: each evaluator stops at the first pass with
\* |delta - 1| < 1e-7; where no pass has it, confluent_x_smaller stops
\* after 98 passes (n = 2 .. 99) and confluent_p_smaller after 99
\* (n = 1 .. 99), n counting the passes from its first value.
C8_CapBelowHundred ==
    LentzRoute =>
        /\ LentzStopsAtFirst
        /\ gq.iters <= (IF gq.route = "xs" THEN 98 ELSE 99)
        /\ GammaqDone /\ ~gq.conv => gq.iters = (IF gq.route = "xs" THEN 98 ELSE 99)
        /\ LentzInLoop /\ ~gq.conv => gq.n = gq.iters + (IF gq.route = "xs" THEN 2 ELSE 1)

\* C8: confluent_x_smaller returned without convergence, after 98 passes.
C8_XSmallerCapped ==
    GammaqDone /\ gq.route = "xs" /\ ~gq.conv /\ gq.iters = 98

\* out = f * exp(-x + p * log(x) - pgm_lgamma(p)), complemented in the
\* x-smaller regime.
NormalizedValue(v) == IF gq.route = "xs" THEN Sub(One, v) ELSE v

NormalizedReturned ==
    gq.out = NormalizedValue(Mul(gq.f, Exp(Sub(Add(Neg(gq.x), Mul(gq.p, Log(gq.x))),
                                               pgm_lgamma(gq.p).val))))

\* C9 as written: where no closed form answers, the x-smaller evaluator is
\* used exactly when x <= p and the p-smaller one exactly when x > p, so
\* that b_1 = x - p + 1 > 1; with normalized = true the value returned is
\* 1 - f * exp(-x + p * log(x) - lgamma(p)) in the x-smaller regime and
\* f * exp(-x + p * log(x) - lgamma(p)) in the p-smaller regime.
C9_FirstDenominatorAboveOne ==
    LentzRoute =>
        /\ gq.route = "xs" <=> Le(gq.x, gq.p)
        /\ gq.route = "ps" <=> Gt(gq.x, gq.p)
        /\ gq.route = "ps" => gq.b1 = Add(Sub(gq.x, gq.p), One) /\ Gt(gq.b1, One)
        /\ GammaqDone /\ gq.normalized => NormalizedReturned

\* C9 as the code has it: the same, with b_1 = x - p + 1 >= 1: the sum is
\* rounded, and is 1 where x - p is below half a unit in the last place of 1.
C9_FirstDenominatorAtLeastOne ==
    LentzRoute =>
        /\ gq.route = "xs" <=> Le(gq.x, gq.p)
        /\ gq.route = "ps" <=> Gt(gq.x, gq.p)
        /\ gq.route = "ps" => gq.b1 = Add(Sub(gq.x, gq.p), One) /\ Ge(gq.b1, One)
        /\ GammaqDone /\ gq.normalized => NormalizedReturned

\* C9: a normalized call returned from the p-smaller evaluator, which had
\* b_1 == 1.
C9_FirstDenominatorOne ==
    GammaqDone /\ gq.route = "ps" /\ gq.normalized /\ Gt(gq.x, gq.p) /\ gq.b1 = One

\* v was replaced by its guard only where it was below DBL_MIN in
\* magnitude; w is what the guard left.
FlooredOnUnderflow(v, w) == w # v => Lt(FAbs(v), DBL_MIN)

\* C10: in both loops, for p > 0 and x >= 0, c and d are replaced by
\* DBL_MIN only when they would underflow toward zero; after the guards of
\* every pass c >= DBL_MIN and d >= DBL_MIN; the divisors of a / c and of
\* 1 / d are never zero.
C10_ContinuantsFloored ==
    LentzRoute /\ gq.iters >= 1 /\ Gt(gq.p, Zero) /\ Ge(gq.x, Zero) =>
        /\ FlooredOnUnderflow(gq.cpre, gq.c)
        /\ FlooredOnUnderflow(gq.dpre, gq.dg)
        /\ Ge(gq.c, DBL_MIN)
        /\ Ge(gq.dg, DBL_MIN)
        /\ ~IsZero(gq.cdiv)
        /\ ~IsZero(gq.dg)

\* C10: a pass replaced a c that was minus infinity by DBL_MIN.
C10_InfinityFloored ==
    LentzRoute /\ gq.iters >= 1 /\ gq.cpre = Inf(-1) /\ gq.c = DBL_MIN

====
